---- MODULE Spec2Model ----
(***************************************************************************)
(* A model of cabby's TAXII 1.1 client, src/cabby/client11.py (Client11).  *)
(*                                                                         *)
(* poll and fulfilment are Python generators: calling them only creates a  *)
(* generator object, and the body runs, from one yield to the next, each   *)
(* time the consumer advances it.  A generator is modelled by its position *)
(* (pc), its local variables and its status; the steps of a running        *)
(* generator are the statements of the body.  The client is used from one  *)
(* thread, so while a generator runs nothing else does.                    *)
(*                                                                         *)
(* The collaborators that live outside client11.py (the identifier         *)
(* generator, _execute_request, the converters) are modelled from the      *)
(* specification: _execute_request resolves the service of the call from   *)
(* the address given or from the descriptors the client knows, and either  *)
(* returns a response the server chose or raises.                          *)
(***************************************************************************)
EXTENDS Integers, Sequences, FiniteSets, TLC

\* ------------------------------------------------------------------------
\* Bounds of the model
\* ------------------------------------------------------------------------
MaxRequests == 3

MaxBlocks == 2

MaxPart == 2

MaxGens == 2

Gens == 1..MaxGens

\* the generator slot of the specifications that follow one sequence
Solo == {1}

None == "None"

\* ------------------------------------------------------------------------
\* Wire-level content blocks and their conversion to entities
\* ------------------------------------------------------------------------
\* The client never looks into a block, so the server's blocks are named by
\* where they come from: block i of part p.  A malformed block lacks a
\* required field.
WireBlock(p, i, bad) == [content |-> <<p, i>>, malformed |-> bad]

\* which blocks of a part are malformed, for every length of a part
MalformedFlags == UNION {[1..n -> BOOLEAN] : n \in 0..MaxBlocks}

\* the blocks of part p
BlocksOf(p, flags) == [i \in 1..Len(flags) |-> WireBlock(p, i, flags[i])]

\* converters.to_content_block_entity: the payload is passed through
to_content_block_entity(b) == [entity |-> "ContentBlock", content |-> b.content]

\* the conversion fails on a malformed wire block
ConversionFails(b) == b.malformed

RECURSIVE ConvertAll(_)
ConvertAll(bs) ==
    IF bs = <<>> THEN <<>>
    ELSE <<to_content_block_entity(Head(bs))>> \o ConvertAll(Tail(bs))

\* ------------------------------------------------------------------------
\* The identifier generator (AbstractClient._generate_id)
\* ------------------------------------------------------------------------
_generate_id(counter) == counter + 1

\* ------------------------------------------------------------------------
\* Service types (libtaxii constants)
\* ------------------------------------------------------------------------
SVC_POLL == "POLL"

SVC_INBOX == "INBOX"

SVC_COLLECTION_MANAGEMENT == "COLLECTION_MANAGEMENT"

RT_FULL == "FULL"

RT_COUNT_ONLY == "COUNT_ONLY"

\* ------------------------------------------------------------------------
\* Arguments of the operations
\* ------------------------------------------------------------------------
Collections == {"feed-1"}

Uris == {None, "https://x/poll"}

Dates == {None, "2015-01-01"}

ResultIds == {"r1", "r2"}

\* an InboxService entity, or no entity (present = FALSE)
NoInbox == [present |-> FALSE, protocol |-> None, address |-> None,
            message_bindings |-> <<>>]

InboxServices ==
    {NoInbox,
     [present |-> TRUE, protocol |-> "https", address |-> "https://i/inbox",
      message_bindings |-> <<"xml11">>],
     [present |-> TRUE, protocol |-> "https", address |-> "https://i/inbox",
      message_bindings |-> <<>>]}

\* content_bindings: None is the empty sequence
ContentBindingArgs == {<<>>, <<"urn:stix">>}

\* the arguments of poll
AllPollArgs ==
    [collection_name : Collections, begin_date : Dates, end_date : Dates,
     count_only : BOOLEAN, subscription_id : {None, "", "sub-1"},
     inbox_service : InboxServices, content_bindings : ContentBindingArgs,
     uri : Uris]

\* poll called with the defaults for the ad-hoc filters
PollArgs ==
    {a \in AllPollArgs :
        /\ a.begin_date = None /\ a.end_date = None /\ ~a.count_only
        /\ a.subscription_id # "" /\ a.inbox_service = NoInbox
        /\ a.content_bindings = <<>>}

NoPollArgs == CHOOSE a \in PollArgs : a.subscription_id = None /\ a.uri = None

\* the arguments of fulfilment
FulfilmentArgs ==
    [collection_name : Collections, result_id : ResultIds,
     part_number : 1..MaxPart, uri : Uris]

NoFArgs == [collection_name |-> None, result_id |-> None, part_number |-> 0,
            uri |-> None]

\* a truthy Python string argument
Truthy(s) == s # None /\ s # ""

\* ------------------------------------------------------------------------
\* Requests
\* ------------------------------------------------------------------------
\* utils.pack_content_bindings: None stays None, a binding id is wrapped
RECURSIVE pack_content_bindings(_)
pack_content_bindings(bs) ==
    IF bs = <<>> THEN <<>>
    ELSE <<[binding_id |-> Head(bs), subtype_ids |-> <<>>]>>
             \o pack_content_bindings(Tail(bs))

NoDelivery == [present |-> FALSE, inbox_protocol |-> None,
               inbox_address |-> None, delivery_message_binding |-> None]

NoPollParameters ==
    [present |-> FALSE, content_bindings |-> <<>>, response_type |-> None,
     allow_asynch |-> FALSE, delivery_parameters |-> NoDelivery]

\* client11.py:353-371, the else branch of poll
PollParameters(a) ==
    [present |-> TRUE,
     content_bindings |-> pack_content_bindings(a.content_bindings),
     response_type |-> IF a.count_only THEN RT_COUNT_ONLY ELSE RT_FULL,
     allow_asynch |-> a.inbox_service.present,
     delivery_parameters |->
        IF a.inbox_service.present
        THEN [present |-> TRUE,
              inbox_protocol |-> a.inbox_service.protocol,
              inbox_address |-> a.inbox_service.address,
              delivery_message_binding |->
                 IF a.inbox_service.message_bindings # <<>>
                 THEN a.inbox_service.message_bindings[1] ELSE "[]"]
        ELSE NoDelivery]

\* client11.py:350, the test that selects the subscription mode
BySubscription(a) == Truthy(a.subscription_id)

\* the poll parameters are built in the subscription mode too
PollRequest_BothModes(a, id) ==
    [type |-> "Poll_Request",
     message_id |-> id,
     collection_name |-> a.collection_name,
     exclusive_begin_timestamp_label |-> a.begin_date,
     inclusive_end_timestamp_label |-> a.end_date,
     subscription_id |-> IF BySubscription(a) THEN a.subscription_id ELSE None,
     poll_parameters |-> PollParameters(a)]

\* client11.py:343-373, the poll request built from the arguments
PollRequest(a, id) ==
    [type |-> "Poll_Request",
     message_id |-> id,
     collection_name |-> a.collection_name,
     exclusive_begin_timestamp_label |-> a.begin_date,
     inclusive_end_timestamp_label |-> a.end_date,
     subscription_id |-> IF BySubscription(a) THEN a.subscription_id ELSE None,
     poll_parameters |->
        IF BySubscription(a) THEN NoPollParameters ELSE PollParameters(a)]

\* the fulfilment request reuses the message id of the request before it
PollFulfillmentRequest_StaleId(fa, id) ==
    [type |-> "Poll_Fulfillment_Request",
     message_id |-> id - 1,
     collection_name |-> fa.collection_name,
     result_id |-> fa.result_id,
     result_part_number |-> fa.part_number]

\* client11.py:409-414, the fulfilment request
PollFulfillmentRequest(fa, id) ==
    [type |-> "Poll_Fulfillment_Request",
     message_id |-> id,
     collection_name |-> fa.collection_name,
     result_id |-> fa.result_id,
     result_part_number |-> fa.part_number]

\* the call of _execute_request: the message, the uri argument, the service
\* type, and the address the message went to
Call(req, uri, svc, addr) ==
    [request |-> req, uri |-> uri, service_type |-> svc, address |-> addr]

\* ------------------------------------------------------------------------
\* Outcomes of _execute_request
\* ------------------------------------------------------------------------
NoResponse == [content_blocks |-> <<>>, more |-> FALSE, result_id |-> None,
               result_part_number |-> 0]

\* the poll responses a server can send
PollResponses ==
    {[content_blocks |-> BlocksOf(p, fl), more |-> m, result_id |-> r,
      result_part_number |-> p] :
        fl \in MalformedFlags, m \in BOOLEAN, r \in ResultIds, p \in 1..MaxPart}

\* the ways the resolution of the service fails
ResolutionFailures == {"no_service", "ambiguous"}

\* What can happen to a request: the server answers with the response the
\* operation expects ("ok"), the server answers with a status message that
\* is not SUCCESS, the transport fails, or no single service is resolved
\* for the call (and nothing is sent).
Failures == {"status_failure", "transport_failure"} \cup ResolutionFailures

Ok(resp) == [kind |-> "ok", response |-> resp]

Failed(e) == [kind |-> e, response |-> NoResponse]

PollOutcomes == {Ok(r) : r \in PollResponses} \cup {Failed(e) : e \in Failures}

\* what the server does with a fulfilment request: which blocks of the part
\* are malformed and whether more parts follow, or a failure
FulfilmentReplies ==
    [kind : {"ok"}, flags : MalformedFlags, more : BOOLEAN]
        \cup [kind : Failures, flags : {<<>>}, more : {FALSE}]

\* a server answers a fulfilment request with the part that was asked for
FulfilmentOutcome(fa, rp) ==
    IF rp.kind = "ok"
    THEN Ok([content_blocks |-> BlocksOf(fa.part_number, rp.flags),
             more |-> rp.more, result_id |-> fa.result_id,
             result_part_number |-> fa.part_number])
    ELSE Failed(rp.kind)

\* AbstractClient._execute_request: the exception it raises, None when it
\* returns the response
Raised(o) ==
    CASE o.kind = "ok" -> None
      [] o.kind = "status_failure" -> "UnsuccessfulStatusError"
      [] o.kind = "transport_failure" -> "TransportError"
      [] o.kind = "no_service" -> "ServiceNotFoundError"
      [] o.kind = "ambiguous" -> "AmbiguousServicesError"

\* the request reached the network
Emitted(o) == o.kind \notin ResolutionFailures

\* ------------------------------------------------------------------------
\* Service descriptors and the resolution of the service of a call
\* ------------------------------------------------------------------------
Descriptor(svc, addr) == [service_type |-> svc, address |-> addr]

PollA == Descriptor(SVC_POLL, "https://a/poll")

PollB == Descriptor(SVC_POLL, "https://b/poll")

InboxI == Descriptor(SVC_INBOX, "https://i/inbox")

ManagementC == Descriptor(SVC_COLLECTION_MANAGEMENT, "https://c/collections")

\* the descriptors of one service type among the known ones
Matches(known, svc) == {d \in known : d.service_type = svc}

\* discovery runs when no address is given and no descriptor of the type is
\* known; what it returns (ds) is merged into the known descriptors.  The
\* resolver's own exchange with the discovery service is not recorded among
\* the calls of the operations.
AfterDiscovery(known, svc, uri, ds) ==
    IF uri = None /\ Matches(known, svc) = {} THEN known \cup ds ELSE known

\* resolve(kind, explicit_address?): the address given, or the address of
\* the single known descriptor of the type
Resolution(known, svc, uri) ==
    IF uri # None THEN [kind |-> "resolved", address |-> uri]
    ELSE LET m == Matches(known, svc) IN
         IF m = {} THEN [kind |-> "no_service", address |-> None]
         ELSE IF Cardinality(m) > 1 THEN [kind |-> "ambiguous", address |-> None]
         ELSE [kind |-> "resolved", address |-> (CHOOSE d \in m : TRUE).address]

\* the outcome o can happen to a call whose resolution is r: a failed
\* resolution is the outcome, and a resolved call gets an answer or a
\* transport failure
Coherent(o, r) ==
    IF r.kind = "resolved" THEN Emitted(o) ELSE o.kind = r.kind

\* ------------------------------------------------------------------------
\* The operations that are no generators: requests, responses, entities
\* ------------------------------------------------------------------------
ACT_SUBSCRIBE == "SUBSCRIBE"

ACT_STATUS == "STATUS"

ACT_PAUSE == "PAUSE"

ACT_RESUME == "RESUME"

ACT_UNSUBSCRIBE == "UNSUBSCRIBE"

SubscriptionId == "sub-1"

\* client11.py:45-173, the four operations on an existing subscription and
\* the action each passes to __subscription_status_request;
\* get_subscription_status alone may be called without a subscription id
SubscriptionOps ==
    {[op |-> "get_subscription_status", action |-> ACT_STATUS, subscription_id |-> None],
     [op |-> "get_subscription_status", action |-> ACT_STATUS, subscription_id |-> SubscriptionId],
     [op |-> "pause_subscription", action |-> ACT_PAUSE, subscription_id |-> SubscriptionId],
     [op |-> "resume_subscription", action |-> ACT_RESUME, subscription_id |-> SubscriptionId],
     [op |-> "unsubscribe", action |-> ACT_UNSUBSCRIBE, subscription_id |-> SubscriptionId]}

\* client11.py:32-39
ManageCollectionSubscriptionRequest(action, collection_name, subscription_id, id) ==
    [type |-> "Manage_Collection_Subscription_Request",
     message_id |-> id,
     action |-> action,
     collection_name |-> collection_name,
     subscription_id |-> subscription_id]

\* the arguments of subscribe
SubscribeArgs ==
    [collection_name : Collections, count_only : BOOLEAN,
     inbox_service : InboxServices, content_bindings : ContentBindingArgs]

\* client11.py:209-227
SubscribeRequest(a, id) ==
    [type |-> "Manage_Collection_Subscription_Request",
     message_id |-> id,
     action |-> ACT_SUBSCRIBE,
     collection_name |-> a.collection_name,
     subscription_parameters |->
        [response_type |-> IF a.count_only THEN RT_COUNT_ONLY ELSE RT_FULL,
         content_bindings |-> pack_content_bindings(a.content_bindings)],
     push_parameters |->
        IF a.inbox_service.present
        THEN [present |-> TRUE,
              inbox_protocol |-> a.inbox_service.protocol,
              inbox_address |-> a.inbox_service.address,
              delivery_message_binding |->
                 IF a.inbox_service.message_bindings # <<>>
                 THEN a.inbox_service.message_bindings[1] ELSE ""]
        ELSE NoDelivery]

\* client11.py:256
CollectionInformationRequest(id) ==
    [type |-> "Collection_Information_Request", message_id |-> id]

\* the arguments of push; timestamp None stands for "no timestamp given"
PushArgs ==
    [content : {"x"}, content_binding : {"urn:test"},
     collections_names : {<<>>, <<"feed-1">>}, timestamp : Dates]

\* utils.get_utc_now
UtcNow == "now"

\* utils.pack_content_binding
pack_content_binding(b) == [binding_id |-> b, subtype_ids |-> <<>>]

\* the destination collection names are left out of the inbox message
InboxMessage_NoDestinations(a, id) ==
    [type |-> "Inbox_Message",
     message_id |-> id,
     content_blocks |->
        <<[content |-> a.content,
           content_binding |-> pack_content_binding(a.content_binding),
           timestamp_label |-> IF a.timestamp # None THEN a.timestamp ELSE UtcNow]>>,
     destination_collection_names |-> <<>>]

\* client11.py:292-302
InboxMessage(a, id) ==
    [type |-> "Inbox_Message",
     message_id |-> id,
     content_blocks |->
        <<[content |-> a.content,
           content_binding |-> pack_content_binding(a.content_binding),
           timestamp_label |-> IF a.timestamp # None THEN a.timestamp ELSE UtcNow]>>,
     destination_collection_names |-> a.collections_names]

\* wire collection informations and the responses that carry them
WireCollection(c, bad) == [collection_name |-> c, available |-> TRUE, malformed |-> bad]

CollectionResponses ==
    {[collection_informations |-> <<WireCollection("feed-2", FALSE),
                                    WireCollection("feed-1", FALSE)>>],
     [collection_informations |-> <<WireCollection("feed-1", TRUE)>>]}

\* converters.to_collection_entities: one entity per information, in order
RECURSIVE to_collection_entities(_)
to_collection_entities(infos) ==
    IF infos = <<>> THEN <<>>
    ELSE <<[entity |-> "Collection", name |-> Head(infos).collection_name,
            available |-> Head(infos).available]>>
            \o to_collection_entities(Tail(infos))

CollectionsMalformed(infos) == \E i \in 1..Len(infos) : infos[i].malformed

WellFormedCollections ==
    {r \in CollectionResponses : ~CollectionsMalformed(r.collection_informations)}

\* subscription management responses
SubscriptionResponses ==
    {[collection_name |-> "feed-1",
      subscription_instances |-> <<[subscription_id |-> SubscriptionId, status |-> "ACTIVE"]>>,
      malformed |-> FALSE],
     [collection_name |-> "feed-1", subscription_instances |-> <<>>, malformed |-> TRUE]}

RECURSIVE to_subscription_entities(_)
to_subscription_entities(insts) ==
    IF insts = <<>> THEN <<>>
    ELSE <<[entity |-> "Subscription",
            subscription_id |-> Head(insts).subscription_id,
            status |-> Head(insts).status]>>
            \o to_subscription_entities(Tail(insts))

\* converters.to_subscription_response_entity
to_subscription_response_entity(r) ==
    [entity |-> "SubscriptionResponse", collection_name |-> r.collection_name,
     subscriptions |-> to_subscription_entities(r.subscription_instances)]

\* the status message with status type SUCCESS that answers an inbox message
StatusSuccess == [status_type |-> "SUCCESS", malformed |-> FALSE]

OutcomesOf(responses) ==
    {Ok(r) : r \in responses} \cup {Failed(e) : e \in Failures}

\* what an operation that is no generator hands to its caller
Returns(op, value) == [op |-> op, raised |-> None, value |-> value]

Raises(op, exc) == [op |-> op, raised |-> exc, value |-> <<>>]

\* no operation has been called yet
NoReturn == Returns(None, <<>>)

\* the call of an operation that is no generator: its name and arguments
Called(op, args, uri) == [op |-> op, args |-> args, uri |-> uri]

NoCall == Called(None, <<>>, None)

\* ------------------------------------------------------------------------
\* State
\* ------------------------------------------------------------------------
VARIABLES
    gens,        \* the generator objects returned by poll and fulfilment
    sent,        \* the _execute_request calls that reached the network
    idCounter,   \* the state of the identifier generator
    ret,         \* what the last operation that is no generator returned or raised
    answer,      \* what happened to the last request, and the generator that
                 \* made it (0: an operation that is no generator)
    services,    \* the service descriptors the client knows
    called       \* the last call of an operation that is no generator

vars == <<gens, sent, idCounter, ret, answer, services, called>>

\* a generator slot that holds no generator yet
FreeGen ==
    [kind |-> "free", st |-> "free", pc |-> "-", args |-> NoPollArgs,
     fargs |-> NoFArgs, response |-> NoResponse, it |-> <<>>, out |-> <<>>,
     err |-> None, parts |-> <<>>, reqs |-> <<>>]

Init ==
    /\ gens = [g \in Gens |-> FreeGen]
    /\ sent = <<>>
    /\ idCounter = 0
    /\ ret = NoReturn
    /\ answer = [gen |-> 0, kind |-> None]
    /\ services = {}
    /\ called = NoCall

\* one thread: nothing else runs while a generator body runs
Idle == \A g \in Gens : gens[g].st # "running"

\* ------------------------------------------------------------------------
\* The consumer
\* ------------------------------------------------------------------------
\* poll is no generator: the call builds and sends the poll request
PollCall_Eager(g, a) ==
    LET id == _generate_id(idCounter)
    IN  /\ Idle
        /\ gens[g].kind = "free"
        /\ gens' = [gens EXCEPT ![g] =
                      [FreeGen EXCEPT !.kind = "poll", !.st = "created",
                                      !.pc = "poll_iter", !.args = a]]
        /\ idCounter' = id
        /\ sent' = Append(sent, Call(PollRequest(a, id), a.uri, SVC_POLL, a.uri))
        /\ UNCHANGED <<ret, answer, services, called>>

\* poll(...) is called: a generator object is created, its body has not run
PollCall(g, a) ==
    /\ Idle
    /\ gens[g].kind = "free"
    /\ gens' = [gens EXCEPT ![g] =
                  [FreeGen EXCEPT !.kind = "poll", !.st = "created",
                                  !.pc = "poll_send", !.args = a]]
    /\ UNCHANGED <<sent, idCounter, ret, answer, services, called>>

\* fulfilment(...) is called by the consumer
FulfilmentCall(g, fa) ==
    /\ Idle
    /\ gens[g].kind = "free"
    /\ gens' = [gens EXCEPT ![g] =
                  [FreeGen EXCEPT !.kind = "fulfilment", !.st = "created",
                                  !.pc = "ful_send", !.fargs = fa]]
    /\ UNCHANGED <<sent, idCounter, ret, answer, services, called>>

\* the consumer advances the generator (next()): the body resumes
Advance(g) ==
    /\ Idle
    /\ gens[g].st \in {"created", "suspended"}
    /\ gens' = [gens EXCEPT ![g].st = "running"]
    /\ UNCHANGED <<sent, idCounter, ret, answer, services, called>>

\* closing the generator tells the server
Abandon_Cancel(g) ==
    /\ Idle
    /\ gens[g].st \in {"created", "suspended"}
    /\ gens' = [gens EXCEPT ![g].st = "closed"]
    /\ sent' = Append(sent, Call([type |-> "Cancel", message_id |-> 0],
                                 gens[g].args.uri, SVC_POLL, gens[g].args.uri))
    /\ UNCHANGED <<idCounter, ret, answer, services, called>>

\* the consumer abandons the iteration: the generator is closed
Abandon(g) ==
    /\ Idle
    /\ gens[g].st \in {"created", "suspended"}
    /\ gens' = [gens EXCEPT ![g].st = "closed"]
    /\ UNCHANGED <<sent, idCounter, ret, answer, services, called>>

\* ------------------------------------------------------------------------
\* The generator bodies
\* ------------------------------------------------------------------------
\* a failed request is made again
AfterExecute_Retry(gen, call, o, pcNext) ==
    IF Raised(o) = None
    THEN [gen EXCEPT !.response = IF gen.pc = "poll_send"
                                  THEN o.response ELSE gen.response,
                     !.it = o.response.content_blocks,
                     !.parts = Append(gen.parts, o.response),
                     !.reqs = Append(gen.reqs, call),
                     !.pc = pcNext]
    ELSE [gen EXCEPT !.reqs = IF Emitted(o) THEN Append(gen.reqs, call)
                              ELSE gen.reqs]

\* the generator after _execute_request returned or raised
AfterExecute(gen, call, o, pcNext) ==
    IF Raised(o) = None
    THEN [gen EXCEPT !.response = IF gen.pc = "poll_send"
                                  THEN o.response ELSE gen.response,
                     !.it = o.response.content_blocks,
                     !.parts = Append(gen.parts, o.response),
                     !.reqs = Append(gen.reqs, call),
                     !.pc = pcNext]
    ELSE [gen EXCEPT !.st = "raised", !.err = Raised(o),
                     !.reqs = IF Emitted(o) THEN Append(gen.reqs, call)
                              ELSE gen.reqs]

\* client11.py:343-374, the initial poll request
PollSend(g, o, ds) ==
    LET gen   == gens[g]
        id    == _generate_id(idCounter)
        known == AfterDiscovery(services, SVC_POLL, gen.args.uri, ds)
        r     == Resolution(known, SVC_POLL, gen.args.uri)
        call  == Call(PollRequest(gen.args, id), gen.args.uri, SVC_POLL, r.address)
    IN  /\ gen.st = "running" /\ gen.pc = "poll_send"
        /\ idCounter < MaxRequests
        /\ Coherent(o, r)
        /\ idCounter' = id
        /\ services' = known
        /\ sent' = IF Emitted(o) THEN Append(sent, call) ELSE sent
        /\ gens' = [gens EXCEPT ![g] = AfterExecute(gen, call, o, "poll_iter")]
        /\ answer' = [gen |-> g, kind |-> o.kind]
        /\ UNCHANGED <<ret, called>>

\* the loop stops one block early
Exhausted_Early(it) == Len(it) <= 1

\* the for loop over imap(to_content_block_entity, blocks) is over
Exhausted(it) == it = <<>>

\* one round of "for block in imap(...): yield block"
IterStep(gen, pcAfter) ==
    IF Exhausted(gen.it)
    THEN IF pcAfter = "return"
         THEN [gen EXCEPT !.st = "done", !.it = <<>>]
         ELSE [gen EXCEPT !.pc = pcAfter, !.it = <<>>]
    ELSE IF ConversionFails(Head(gen.it))
         THEN [gen EXCEPT !.st = "raised", !.err = "ConversionError"]
         ELSE [gen EXCEPT !.out = Append(gen.out,
                                         to_content_block_entity(Head(gen.it))),
                          !.it = Tail(gen.it),
                          !.st = "suspended"]

\* client11.py:376-377, yield the blocks of the poll response
PollIter(g) ==
    /\ gens[g].st = "running" /\ gens[g].pc = "poll_iter"
    /\ gens' = [gens EXCEPT ![g] = IterStep(gens[g], "poll_while")]
    /\ UNCHANGED <<sent, idCounter, ret, answer, services, called>>

\* client11.py:379, the loop test
MoreParts(gen) == gen.response.more

\* client11.py:380, the part to ask for
NextPart(gen) == gen.response.result_part_number + 1

\* the result to continue is the one the client heard of last, whichever
\* sequence asked
PollWhile_Shared(g) ==
    LET gen    == gens[g]
        latest == IF answer.gen \in Gens THEN gens[answer.gen].response
                  ELSE gen.response
    IN  /\ gen.st = "running" /\ gen.pc = "poll_while"
        /\ gens' = [gens EXCEPT ![g] =
              IF MoreParts(gen)
              THEN [gen EXCEPT !.pc = "ful_send",
                               !.fargs = [collection_name |-> gen.args.collection_name,
                                          result_id |-> latest.result_id,
                                          part_number |-> latest.result_part_number + 1,
                                          uri |-> gen.args.uri]]
              ELSE [gen EXCEPT !.st = "done"]]
        /\ UNCHANGED <<sent, idCounter, ret, answer, services, called>>

\* self.fulfilment is called without the uri
PollWhile_DropsUri(g) ==
    LET gen == gens[g]
    IN  /\ gen.st = "running" /\ gen.pc = "poll_while"
        /\ gens' = [gens EXCEPT ![g] =
              IF MoreParts(gen)
              THEN [gen EXCEPT !.pc = "ful_send",
                               !.fargs = [collection_name |-> gen.args.collection_name,
                                          result_id |-> gen.response.result_id,
                                          part_number |-> NextPart(gen),
                                          uri |-> None]]
              ELSE [gen EXCEPT !.st = "done"]]
        /\ UNCHANGED <<sent, idCounter, ret, answer, services, called>>

\* the first two arguments of self.fulfilment are passed in the wrong order
PollWhile_Swapped(g) ==
    LET gen == gens[g]
    IN  /\ gen.st = "running" /\ gen.pc = "poll_while"
        /\ gens' = [gens EXCEPT ![g] =
              IF MoreParts(gen)
              THEN [gen EXCEPT !.pc = "ful_send",
                               !.fargs = [collection_name |-> gen.response.result_id,
                                          result_id |-> gen.args.collection_name,
                                          part_number |-> NextPart(gen),
                                          uri |-> gen.args.uri]]
              ELSE [gen EXCEPT !.st = "done"]]
        /\ UNCHANGED <<sent, idCounter, ret, answer, services, called>>

\* client11.py:379-382, the loop test and the call of self.fulfilment
PollWhile(g) ==
    LET gen == gens[g]
    IN  /\ gen.st = "running" /\ gen.pc = "poll_while"
        /\ gens' = [gens EXCEPT ![g] =
              IF MoreParts(gen)
              THEN [gen EXCEPT !.pc = "ful_send",
                               !.fargs = [collection_name |-> gen.args.collection_name,
                                          result_id |-> gen.response.result_id,
                                          part_number |-> NextPart(gen),
                                          uri |-> gen.args.uri]]
              ELSE [gen EXCEPT !.st = "done"]]
        /\ UNCHANGED <<sent, idCounter, ret, answer, services, called>>

\* the fulfilment request is dispatched to the inbox service
FulfilmentSend_ToInbox(g, rp, ds) ==
    LET gen   == gens[g]
        o     == FulfilmentOutcome(gen.fargs, rp)
        id    == _generate_id(idCounter)
        known == AfterDiscovery(services, SVC_INBOX, gen.fargs.uri, ds)
        r     == Resolution(known, SVC_INBOX, gen.fargs.uri)
        call  == Call(PollFulfillmentRequest(gen.fargs, id), gen.fargs.uri,
                      SVC_INBOX, r.address)
    IN  /\ gen.st = "running" /\ gen.pc = "ful_send"
        /\ idCounter < MaxRequests
        /\ Coherent(o, r)
        /\ idCounter' = id
        /\ services' = known
        /\ sent' = IF Emitted(o) THEN Append(sent, call) ELSE sent
        /\ gens' = [gens EXCEPT ![g] = AfterExecute(gen, call, o, "ful_iter")]
        /\ answer' = [gen |-> g, kind |-> o.kind]
        /\ UNCHANGED <<ret, called>>

\* client11.py:409-416, the fulfilment request
FulfilmentSend(g, rp, ds) ==
    LET gen   == gens[g]
        o     == FulfilmentOutcome(gen.fargs, rp)
        id    == _generate_id(idCounter)
        known == AfterDiscovery(services, SVC_POLL, gen.fargs.uri, ds)
        r     == Resolution(known, SVC_POLL, gen.fargs.uri)
        call  == Call(PollFulfillmentRequest(gen.fargs, id), gen.fargs.uri,
                      SVC_POLL, r.address)
    IN  /\ gen.st = "running" /\ gen.pc = "ful_send"
        /\ idCounter < MaxRequests
        /\ Coherent(o, r)
        /\ idCounter' = id
        /\ services' = known
        /\ sent' = IF Emitted(o) THEN Append(sent, call) ELSE sent
        /\ gens' = [gens EXCEPT ![g] = AfterExecute(gen, call, o, "ful_iter")]
        /\ answer' = [gen |-> g, kind |-> o.kind]
        /\ UNCHANGED <<ret, called>>

\* fulfilment goes on to the next part when the part says more
FulfilmentIter_Paginating(g) ==
    LET gen == gens[g] IN
    /\ gen.st = "running" /\ gen.pc = "ful_iter"
    /\ gens' = [gens EXCEPT ![g] =
          IF Exhausted(gen.it) /\ gen.parts[Len(gen.parts)].more
          THEN [gen EXCEPT !.pc = "ful_send",
                           !.fargs.part_number = gen.fargs.part_number + 1]
          ELSE IterStep(gen, IF gen.kind = "poll" THEN "poll_while" ELSE "return")]
    /\ UNCHANGED <<sent, idCounter, ret, answer, services, called>>

\* client11.py:418-419 (and 381-383 when poll drives the fulfilment)
FulfilmentIter(g) ==
    /\ gens[g].st = "running" /\ gens[g].pc = "ful_iter"
    /\ gens' = [gens EXCEPT ![g] =
          IterStep(gens[g], IF gens[g].kind = "poll" THEN "poll_while" ELSE "return")]
    /\ UNCHANGED <<sent, idCounter, ret, answer, services, called>>

\* ------------------------------------------------------------------------
\* The operations that are no generators
\* ------------------------------------------------------------------------
\* the operation swallows the exception and returns an empty result
Executed_Swallow(op, req, uri, svc, o, value, convFails, ds) ==
    LET known == AfterDiscovery(services, svc, uri, ds)
        r     == Resolution(known, svc, uri)
    IN  /\ Coherent(o, r)
        /\ services' = known
        /\ sent' = IF Emitted(o) THEN Append(sent, Call(req, uri, svc, r.address))
                   ELSE sent
        /\ ret' = IF Raised(o) # None \/ convFails THEN Returns(op, <<>>)
                  ELSE Returns(op, value)

\* one call of _execute_request by an operation, and what the operation
\* hands to its caller: the exception, or the converted response
Executed(op, req, uri, svc, o, value, convFails, ds) ==
    LET known == AfterDiscovery(services, svc, uri, ds)
        r     == Resolution(known, svc, uri)
    IN  /\ Coherent(o, r)
        /\ services' = known
        /\ sent' = IF Emitted(o) THEN Append(sent, Call(req, uri, svc, r.address))
                   ELSE sent
        /\ ret' = IF Raised(o) # None THEN Raises(op, Raised(o))
                  ELSE IF convFails THEN Raises(op, "ConversionError")
                  ELSE Returns(op, value)

\* client11.py:30-43 called from 76, 108, 140 and 172
SubscriptionStatusRequest(sop, collection_name, uri, o, ds) ==
    /\ Idle
    /\ idCounter < MaxRequests
    /\ idCounter' = _generate_id(idCounter)
    /\ answer' = [gen |-> 0, kind |-> o.kind]
    /\ called' = Called(sop.op, [collection_name |-> collection_name,
                                 subscription_id |-> sop.subscription_id], uri)
    /\ Executed(sop.op,
                ManageCollectionSubscriptionRequest(sop.action, collection_name,
                    sop.subscription_id, _generate_id(idCounter)),
                uri, SVC_COLLECTION_MANAGEMENT, o,
                <<to_subscription_response_entity(o.response)>>,
                Raised(o) = None /\ o.response.malformed, ds)
    /\ UNCHANGED gens

\* client11.py:209-230
Subscribe(a, uri, o, ds) ==
    /\ Idle
    /\ idCounter < MaxRequests
    /\ idCounter' = _generate_id(idCounter)
    /\ answer' = [gen |-> 0, kind |-> o.kind]
    /\ called' = Called("subscribe", a, uri)
    /\ Executed("subscribe", SubscribeRequest(a, _generate_id(idCounter)),
                uri, SVC_COLLECTION_MANAGEMENT, o,
                <<to_subscription_response_entity(o.response)>>,
                Raised(o) = None /\ o.response.malformed, ds)
    /\ UNCHANGED gens

\* client11.py:256-260
GetCollections(uri, o, ds) ==
    /\ Idle
    /\ idCounter < MaxRequests
    /\ idCounter' = _generate_id(idCounter)
    /\ answer' = [gen |-> 0, kind |-> o.kind]
    /\ called' = Called("get_collections", <<>>, uri)
    /\ Executed("get_collections",
                CollectionInformationRequest(_generate_id(idCounter)),
                uri, SVC_COLLECTION_MANAGEMENT, o,
                to_collection_entities(o.response.collection_informations),
                Raised(o) = None
                    /\ CollectionsMalformed(o.response.collection_informations),
                ds)
    /\ UNCHANGED gens

\* client11.py:292-306; push has no return statement: what the caller gets
\* when nothing is raised is Python's None
Push(a, uri, o, ds) ==
    /\ Idle
    /\ idCounter < MaxRequests
    /\ idCounter' = _generate_id(idCounter)
    /\ answer' = [gen |-> 0, kind |-> o.kind]
    /\ called' = Called("push", a, uri)
    /\ Executed("push", InboxMessage(a, _generate_id(idCounter)),
                uri, SVC_INBOX, o, <<>>, FALSE, ds)
    /\ UNCHANGED gens

\* the address of the discovery service the client was created with
DiscoveryUri == "https://d/discovery"

\* client11.py:26
DiscoveryRequest(id) == [type |-> "Discovery_Request", message_id |-> id]

\* what a discovery service answers: the descriptors of its services
DiscoveryResponse(ds) == [service_instances |-> ds]

\* client11.py:25-28 called by discover_services: the descriptors the
\* discovery service reports are merged into the known ones
Discover(o) ==
    LET id   == _generate_id(idCounter)
        call == Call(DiscoveryRequest(id), DiscoveryUri, None, DiscoveryUri)
    IN  /\ Idle
        /\ idCounter < MaxRequests
        /\ Emitted(o)
        /\ idCounter' = id
        /\ answer' = [gen |-> 0, kind |-> o.kind]
        /\ called' = Called("discover_services", <<>>, DiscoveryUri)
        /\ sent' = Append(sent, call)
        /\ services' = IF Raised(o) = None
                       THEN services \cup o.response.service_instances
                       ELSE services
        /\ ret' = IF Raised(o) = None
                  THEN Returns("discover_services", <<o.response.service_instances>>)
                  ELSE Raises("discover_services", Raised(o))
        /\ UNCHANGED gens

\* what the discovery of a poll service can report: nothing, or one service
PollDiscoveries == {{}, {PollA}}

Next ==
    \/ \E g \in Solo, a \in PollArgs : PollCall(g, a)
    \/ \E g \in Solo, fa \in FulfilmentArgs : FulfilmentCall(g, fa)
    \/ \E g \in Solo : Advance(g)
    \/ \E g \in Solo : Abandon(g)
    \/ \E g \in Solo, o \in PollOutcomes, ds \in PollDiscoveries : PollSend(g, o, ds)
    \/ \E g \in Solo : PollIter(g)
    \/ \E g \in Solo : PollWhile(g)
    \/ \E g \in Solo, rp \in FulfilmentReplies, ds \in PollDiscoveries :
          FulfilmentSend(g, rp, ds)
    \/ \E g \in Solo : FulfilmentIter(g)

Spec == Init /\ [][Next]_vars

\* ------------------------------------------------------------------------
\* The whole client: every operation, against a server with short parts
\* ------------------------------------------------------------------------
\* parts of at most one block, all well-formed, of result r1 from part 1 on
ShortReplies ==
    {rp \in FulfilmentReplies :
        /\ Len(rp.flags) <= 1
        /\ \A i \in 1..Len(rp.flags) : ~rp.flags[i]
        /\ rp.kind \in {"ok", "status_failure"}}

ShortPollOutcomes ==
    {FulfilmentOutcome([collection_name |-> "feed-1", result_id |-> "r1",
                        part_number |-> 1, uri |-> None], rp) : rp \in ShortReplies}

\* a well-formed answer, or a status message that is not SUCCESS
Answers(responses) == {Ok(r) : r \in responses} \cup {Failed("status_failure")}

WellFormed(responses) == {r \in responses : ~r.malformed}

\* subscribe with the default filters
PlainSubscribeArgs ==
    {a \in SubscribeArgs :
        /\ ~a.count_only /\ a.content_bindings = <<>>
        /\ a.inbox_service.message_bindings = <<>>}

\* push without a timestamp
PlainPushArgs == {a \in PushArgs : a.timestamp = None}

\* the services of a server that has one service of each type
Catalogue == {PollA, InboxI, ManagementC}

NextClient ==
    \/ \E g \in Solo, a \in PollArgs : PollCall(g, a)
    \/ \E g \in Solo, fa \in FulfilmentArgs : FulfilmentCall(g, fa)
    \/ \E g \in Solo : Advance(g)
    \/ \E g \in Solo : Abandon(g)
    \/ \E g \in Solo, o \in ShortPollOutcomes : PollSend(g, o, Catalogue)
    \/ \E g \in Solo : PollIter(g)
    \/ \E g \in Solo : PollWhile(g)
    \/ \E g \in Solo, rp \in ShortReplies : FulfilmentSend(g, rp, Catalogue)
    \/ \E g \in Solo : FulfilmentIter(g)
    \/ \E sop \in SubscriptionOps, c \in Collections,
          o \in Answers(WellFormed(SubscriptionResponses)) :
          SubscriptionStatusRequest(sop, c, None, o, Catalogue)
    \/ \E a \in PlainSubscribeArgs, o \in Answers(WellFormed(SubscriptionResponses)) :
          Subscribe(a, None, o, Catalogue)
    \/ \E o \in Answers(WellFormedCollections) : GetCollections(None, o, Catalogue)
    \/ \E a \in PlainPushArgs, o \in Answers({StatusSuccess}) :
          Push(a, None, o, Catalogue)
    \/ \E o \in Answers({DiscoveryResponse(Catalogue)}) : Discover(o)

SpecClient == Init /\ [][NextClient]_vars

\* ------------------------------------------------------------------------
\* poll with every combination of its arguments
\* ------------------------------------------------------------------------
\* parts of exactly one block
OneBlockReplies == {rp \in ShortReplies : rp.kind = "ok" => Len(rp.flags) = 1}

OneBlockPollOutcomes ==
    {o \in ShortPollOutcomes : o.kind = "ok" => Len(o.response.content_blocks) = 1}

NextPoll ==
    \/ \E g \in Solo, a \in AllPollArgs : PollCall(g, a)
    \/ \E g \in Solo : Advance(g)
    \/ \E g \in Solo : Abandon(g)
    \/ \E g \in Solo, o \in OneBlockPollOutcomes : PollSend(g, o, Catalogue)
    \/ \E g \in Solo : PollIter(g)
    \/ \E g \in Solo : PollWhile(g)
    \/ \E g \in Solo, rp \in OneBlockReplies : FulfilmentSend(g, rp, Catalogue)
    \/ \E g \in Solo : FulfilmentIter(g)

SpecPoll == Init /\ [][NextPoll]_vars

\* ------------------------------------------------------------------------
\* poll with and without an address, while services are discovered
\* ------------------------------------------------------------------------
\* the resolution of the service can fail as well
DispatchPollOutcomes ==
    ShortPollOutcomes \cup {Failed(e) : e \in ResolutionFailures}

DispatchReplies ==
    ShortReplies \cup [kind : ResolutionFailures, flags : {<<>>}, more : {FALSE}]

\* a discovery service that reports one poll service, or another
PollServices == {{PollA}, {PollB}}

NextDispatch ==
    \/ \E g \in Solo, a \in PollArgs : PollCall(g, a)
    \/ \E g \in Solo : Advance(g)
    \/ \E g \in Solo : Abandon(g)
    \/ \E g \in Solo, o \in DispatchPollOutcomes, ds \in PollDiscoveries :
          PollSend(g, o, ds)
    \/ \E g \in Solo : PollIter(g)
    \/ \E g \in Solo : PollWhile(g)
    \/ \E g \in Solo, rp \in DispatchReplies, ds \in PollDiscoveries :
          FulfilmentSend(g, rp, ds)
    \/ \E g \in Solo : FulfilmentIter(g)
    \/ \E ds \in PollServices : Discover(Ok(DiscoveryResponse(ds)))

SpecDispatch == Init /\ [][NextDispatch]_vars

\* ------------------------------------------------------------------------
\* Two poll sequences on one client, iterated in any interleaving
\* ------------------------------------------------------------------------
Feeds == {"feed-1", "feed-2"}

\* poll called with a collection name and the defaults
FeedPollArgs == {[NoPollArgs EXCEPT !.collection_name = c] : c \in Feeds}

\* poll responses of at most one block, well-formed, of any result and part
ShortPollResponses ==
    {r \in PollResponses :
        /\ Len(r.content_blocks) <= 1
        /\ \A i \in 1..Len(r.content_blocks) : ~r.content_blocks[i].malformed}

NextTwo ==
    \/ \E g \in Gens, a \in FeedPollArgs : PollCall(g, a)
    \/ \E g \in Gens : Advance(g)
    \/ \E g \in Gens : Abandon(g)
    \/ \E g \in Gens, o \in Answers(ShortPollResponses) : PollSend(g, o, Catalogue)
    \/ \E g \in Gens : PollIter(g)
    \/ \E g \in Gens : PollWhile(g)
    \/ \E g \in Gens, rp \in ShortReplies : FulfilmentSend(g, rp, Catalogue)
    \/ \E g \in Gens : FulfilmentIter(g)

SpecTwo == Init /\ [][NextTwo]_vars

\* ------------------------------------------------------------------------
\* Properties of the pagination (poll and fulfilment)
\* ------------------------------------------------------------------------
\* the wire blocks of the parts received so far, in the order received
RECURSIVE Flatten(_)
Flatten(parts) ==
    IF parts = <<>> THEN <<>>
    ELSE Head(parts).content_blocks \o Flatten(Tail(parts))

PollGens == {g \in Gens : gens[g].kind = "poll"}

FulfilmentGens == {g \in Gens : gens[g].kind = "fulfilment"}

\* the part number carried by the i-th request of a sequence (i > 1)
RequestedPart(gen, i) == gen.reqs[i].request.result_part_number

\* C1: when the poll response has more=true, result_id r1 and part 1, and
\* the fulfilment response for part 2 has more=false, poll produces part 1's
\* blocks then part 2's blocks and ends: no third request is made and
\* nothing beyond the two parts is yielded.
C1_RoundTrip ==
    \A g \in PollGens :
        LET gen == gens[g] IN
        (/\ Len(gen.parts) >= 2
         /\ gen.parts[1].more
         /\ gen.parts[1].result_id = "r1"
         /\ gen.parts[1].result_part_number = 1
         /\ ~gen.parts[2].more)
        => /\ Len(gen.reqs) = 2
           /\ gen.out = ConvertAll(SubSeq(gen.parts[1].content_blocks
                                            \o gen.parts[2].content_blocks,
                                          1, Len(gen.out)))

\* C2: once some part of a poll sequence has carried more=false, the engine
\* requests no part after it (so the sequence can end).
C2_StopsAfterLastPart ==
    \A g \in PollGens :
        \A i \in 1..Len(gens[g].parts) :
            ~gens[g].parts[i].more => Len(gens[g].reqs) <= i

\* C3: the fulfilment requests of one poll sequence ask for the parts
\* k+1, k+2, ... where k is the part number of the poll response: the
\* i-th request of the sequence asks for part k + i - 1.
C3_ConsecutiveParts ==
    \A g \in PollGens :
        \A i \in 2..Len(gens[g].reqs) :
            RequestedPart(gens[g], i)
                = gens[g].parts[1].result_part_number + i - 1

\* C4: what has been yielded is always the conversion of the blocks
\* received so far, in the order received, up to the blocks of the latest
\* part that are still to come: when a part is requested, every block of
\* the parts before it has been yielded.
C4_LazyInOrder ==
    \A g \in Gens :
        LET gen == gens[g]
            all == Flatten(gen.parts)
        IN  /\ Len(gen.out) <= Len(all)
            /\ gen.out = ConvertAll(SubSeq(all, 1, Len(gen.out)))
            /\ gen.it = SubSeq(all, Len(gen.out) + 1, Len(all))
            /\ gen.parts # <<>> =>
                  Len(gen.it) <= Len(gen.parts[Len(gen.parts)].content_blocks)

\* a second part was requested after a first part of two blocks
C4_Witness ==
    \E g \in PollGens :
        /\ Len(gens[g].parts) >= 2
        /\ Len(gens[g].parts[1].content_blocks) = 2
        /\ Len(gens[g].parts[2].content_blocks) = 2
        /\ Len(gens[g].out) = 4

\* one step, as C5 allows it: a generator that is closed after the step has
\* sent nothing in it, and a step that closes one sends nothing at all
C5_Step ==
    \A g \in Gens :
        gens'[g].st = "closed" =>
            /\ gens'[g].reqs = gens[g].reqs
            /\ gens[g].st # "closed" => sent' = sent
            /\ gens[g].st = "closed" => gens'[g] = gens[g]

\* C5: abandoning a sequence sends nothing, and nothing is sent for an
\* abandoned sequence afterwards, whatever its last part said.
C5_NoRequestAfterAbandon == [][C5_Step]_vars

\* a sequence abandoned between yields while the server had more parts
C5_Witness ==
    \E g \in PollGens :
        /\ gens[g].st = "closed"
        /\ gens[g].out # <<>>
        /\ gens[g].response.more

\* one step, as C8 allows it: a request without an answer has raised, a
\* sequence that ended normally skipped no malformed block, a sequence that
\* raised does nothing more, and raising yields nothing and sends at most
\* the request that failed
C8_Step ==
    \A g \in Gens :
        LET gen == gens[g] IN
        /\ Len(gen.reqs) > Len(gen.parts) => gen.st = "raised"
        /\ gen.st = "done" =>
              \A i \in 1..Len(Flatten(gen.parts)) :
                  ~ConversionFails(Flatten(gen.parts)[i])
        /\ gen.st = "raised" => gens'[g] = gen
        /\ gens'[g].st = "raised" =>
              /\ gens'[g].out = gen.out
              /\ Len(gens'[g].reqs) <= Len(gen.reqs) + 1

\* C8: a failed fetch of a later part is raised by the step that made it:
\* the sequence is over (no retry, no further request), and what was
\* yielded before stays as it was.
C8_FailureEndsSequence == [][C8_Step]_vars

\* a later part failed after blocks had been yielded
C8_Witness ==
    \E g \in PollGens :
        /\ gens[g].st = "raised"
        /\ Len(gens[g].parts) >= 1
        /\ Len(gens[g].reqs) = 2
        /\ gens[g].out # <<>>
        /\ gens[g].err = "UnsuccessfulStatusError"

\* C10: a fulfilment call makes at most one exchange, for the result id and
\* part number it was given; fully consumed, it made exactly one and
\* yielded the blocks of that part only.
C10_SinglePart ==
    \A g \in FulfilmentGens :
        LET gen == gens[g] IN
        /\ Len(gen.reqs) <= 1
        /\ Len(gen.parts) <= 1
        /\ \A i \in 1..Len(gen.reqs) :
              /\ gen.reqs[i].request.type = "Poll_Fulfillment_Request"
              /\ gen.reqs[i].request.result_id = gen.fargs.result_id
              /\ gen.reqs[i].request.result_part_number = gen.fargs.part_number
        /\ gen.st = "done" =>
              /\ Len(gen.reqs) = 1
              /\ gen.out = ConvertAll(gen.parts[1].content_blocks)

\* a fulfilment call fully consumed whose part said more=true
C10_Witness ==
    \E g \in FulfilmentGens :
        /\ gens[g].st = "done"
        /\ gens[g].parts[1].more
        /\ Len(gens[g].out) = 2

\* ------------------------------------------------------------------------
\* Properties of the requests
\* ------------------------------------------------------------------------
\* C6: no two requests the client has sent carry the same message id,
\* whichever operations sent them.
C6_DistinctIds ==
    \A i, j \in 1..Len(sent) :
        i # j => sent[i].request.message_id # sent[j].request.message_id

\* a poll request, its fulfilment request and a request of another operation
C6_Witness ==
    /\ Len(sent) = 3
    /\ \E i, j, k \in 1..3 :
          /\ sent[i].request.type = "Poll_Request"
          /\ sent[j].request.type = "Poll_Fulfillment_Request"
          /\ sent[k].request.type \notin {"Poll_Request", "Poll_Fulfillment_Request"}

\* the poll request of a sequence, once it is sent
PollRequestOf(gen) == gen.reqs[1].request

PolledBySubscription ==
    {g \in PollGens : gens[g].reqs # <<>> /\ Truthy(gens[g].args.subscription_id)}

\* C7 as stated: a poll by subscription id sends the subscription id and
\* none of the ad-hoc parameters: no date range, no content bindings, no
\* count-only flag, no delivery parameters.
C7_NoFiltersWithSubscription ==
    \A g \in PolledBySubscription :
        LET req == PollRequestOf(gens[g]) IN
        /\ req.subscription_id = gens[g].args.subscription_id
        /\ ~req.poll_parameters.present
        /\ req.exclusive_begin_timestamp_label = None
        /\ req.inclusive_end_timestamp_label = None

\* C7 as amended: a poll by a non-empty subscription id sends the
\* subscription id and no poll parameters (content bindings, response type,
\* delivery parameters), whatever was passed for them; the date range is
\* sent as the caller passed it.
C7_NoPollParametersWithSubscription ==
    \A g \in PolledBySubscription :
        LET req == PollRequestOf(gens[g]) IN
        /\ req.subscription_id = gens[g].args.subscription_id
        /\ req.poll_parameters = NoPollParameters
        /\ req.exclusive_begin_timestamp_label = gens[g].args.begin_date
        /\ req.inclusive_end_timestamp_label = gens[g].args.end_date

\* a poll by subscription id called with every ad-hoc parameter as well
C7_Witness ==
    \E g \in PolledBySubscription :
        /\ gens[g].args.begin_date # None
        /\ gens[g].args.end_date # None
        /\ gens[g].args.count_only
        /\ gens[g].args.inbox_service.present
        /\ gens[g].args.content_bindings # <<>>

\* C9: a status message that is not SUCCESS makes the operation raise
\* UnsuccessfulStatusError and hand over no entity: the operations that
\* return a value return none, and a poll or fulfilment sequence has yielded
\* the blocks of the answered requests only.
C9_NoEntityOnFailure ==
    /\ (answer.gen = 0 /\ answer.kind = "status_failure") =>
          /\ ret.raised = "UnsuccessfulStatusError"
          /\ ret.value = <<>>
    /\ \A g \in Gens :
          (answer.gen = g /\ answer.kind = "status_failure") =>
              /\ gens[g].st = "raised"
              /\ gens[g].err = "UnsuccessfulStatusError"
              /\ Len(gens[g].parts) = Len(gens[g].reqs) - 1
              /\ gens[g].out = ConvertAll(Flatten(gens[g].parts))

\* get_collections was answered with a status message that is not SUCCESS
C9_Witness ==
    /\ answer.gen = 0 /\ answer.kind = "status_failure"
    /\ ret.op = "get_collections"

\* ------------------------------------------------------------------------
\* Properties of push
\* ------------------------------------------------------------------------
\* a step of push, made when one inbox service is known
PushStep ==
    /\ idCounter' # idCounter
    /\ gens' = gens
    /\ called'.op = "push"
    /\ Matches(services, SVC_INBOX) = {InboxI}

\* the one message a push sent in this step
Pushed == sent'[Len(sent')]

\* one step, as C11 allows it: a push that the server answers with a success
\* status raises nothing and hands over no value, and has sent one inbox
\* message, to the inbox service, with the one content block and the
\* destination collection names of the call
C11_Step ==
    (PushStep /\ answer'.kind = "ok") =>
        /\ ret' = Returns("push", <<>>)
        /\ sent' = Append(sent, Pushed)
        /\ Pushed.service_type = SVC_INBOX
        /\ Pushed.address = InboxI.address
        /\ Pushed.request.type = "Inbox_Message"
        /\ Len(Pushed.request.content_blocks) = 1
        /\ Pushed.request.content_blocks[1].content = called'.args.content
        /\ Pushed.request.content_blocks[1].content_binding.binding_id
               = called'.args.content_binding
        /\ Pushed.request.destination_collection_names
               = called'.args.collections_names

\* C11: push against a single known inbox service, answered with a success
\* status, returns normally and raises nothing, after sending exactly one
\* inbox message that holds exactly one content block and the destination
\* collection names that were given.
C11_PushAcknowledged == [][C11_Step]_vars

\* after a discovery, a push with destination collection names was answered
\* with success
C11_Witness ==
    /\ Len(sent) = 2
    /\ sent[1].request.type = "Discovery_Request"
    /\ called.op = "push"
    /\ called.args.collections_names = <<"feed-1">>
    /\ answer = [gen |-> 0, kind |-> "ok"]
    /\ ret = Returns("push", <<>>)
    /\ sent # <<>>
    /\ sent[Len(sent)].request.type = "Inbox_Message"
    /\ services = Catalogue

\* ------------------------------------------------------------------------
\* Properties of the dispatch
\* ------------------------------------------------------------------------
\* the service type each message belongs to
ServiceOf(type) ==
    CASE type \in {"Poll_Request", "Poll_Fulfillment_Request"} -> SVC_POLL
      [] type = "Inbox_Message" -> SVC_INBOX
      [] type \in {"Collection_Information_Request",
                   "Manage_Collection_Subscription_Request"}
            -> SVC_COLLECTION_MANAGEMENT

\* the calls that were made without an address
WithoutAddress == {i \in 1..Len(sent) : sent[i].uri = None}

\* C12: a message of an operation called without an address went to a known
\* service of the type the operation belongs to: poll and fulfilment
\* requests to the poll service (https://a/poll when that is the one poll
\* service known), inbox messages to the inbox service, collection
\* information and subscription management requests to the collection
\* management service.
C12_DispatchedByKind ==
    \A i \in WithoutAddress :
        /\ sent[i].service_type = ServiceOf(sent[i].request.type)
        /\ \E d \in Matches(services, ServiceOf(sent[i].request.type)) :
              sent[i].address = d.address
        /\ (ServiceOf(sent[i].request.type) = SVC_POLL /\ PollA \in services)
              => sent[i].address = "https://a/poll"

\* a poll request and its fulfilment request went to https://a/poll, and a
\* request of another operation went to the service of its own type
C12_Witness ==
    /\ WithoutAddress = 1..3
    /\ sent[1].request.type = "Poll_Request"
    /\ sent[1].request.collection_name = "feed-1"
    /\ sent[1].address = "https://a/poll"
    /\ \E i \in 2..3 : /\ sent[i].request.type = "Poll_Fulfillment_Request"
                       /\ sent[i].address = "https://a/poll"
    /\ \E i \in 2..3 : ServiceOf(sent[i].request.type) # SVC_POLL

\* ------------------------------------------------------------------------
\* Properties of two poll sequences on one client
\* ------------------------------------------------------------------------
\* the poll sequences whose poll request was answered
Answered == {g \in PollGens : gens[g].parts # <<>>}

\* the requests of a sequence after its first
Later(gen) == 2..Len(gen.reqs)

\* C13: a poll sequence begins with a poll request of its own and goes on
\* with fulfilment requests only, and no fulfilment request of one sequence
\* carries the result id, or follows the part number, that the poll
\* response of another sequence reported.
C13_NoResume ==
    \A g \in PollGens :
        /\ gens[g].reqs # <<>> => gens[g].reqs[1].request.type = "Poll_Request"
        /\ \A i \in Later(gens[g]) :
              gens[g].reqs[i].request.type = "Poll_Fulfillment_Request"
        /\ \A h \in Answered \ {g} : \A i \in Later(gens[g]) :
              LET mine   == gens[g].parts[1]
                  theirs == gens[h].parts[1]
                  req    == gens[g].reqs[i].request
              IN  /\ theirs.result_id # mine.result_id
                        => req.result_id # theirs.result_id
                  /\ theirs.result_part_number # mine.result_part_number
                        => req.result_part_number # theirs.result_part_number + 1

\* two sequences were polled one after the other, with different results
\* and parts, and the first went on with a fulfilment request afterwards
C13_Witness ==
    /\ Answered = {1, 2}
    /\ gens[1].parts[1].result_id # gens[2].parts[1].result_id
    /\ gens[1].parts[1].result_part_number # gens[2].parts[1].result_part_number
    /\ Len(sent) = 3
    /\ Len(gens[1].reqs) = 2
    /\ Len(gens[2].reqs) = 1
    /\ sent[1] = gens[1].reqs[1]
    /\ sent[2] = gens[2].reqs[1]
    /\ sent[3] = gens[1].reqs[2]

\* C14: every fulfilment request of a poll sequence carries the collection
\* name that was passed to poll and the result id of the sequence's poll
\* response, the same from one part to the next.
C14_SameCollectionAndResult ==
    \A g \in Answered : \A i \in Later(gens[g]) :
        /\ gens[g].reqs[i].request.collection_name = gens[g].args.collection_name
        /\ gens[g].reqs[i].request.result_id = gens[g].parts[1].result_id

\* a sequence polled feed-2, was given result r2, and asked for two parts
C14_Witness ==
    \E g \in Answered :
        /\ gens[g].args.collection_name = "feed-2"
        /\ gens[g].parts[1].result_id = "r2"
        /\ Len(gens[g].reqs) = 3
        /\ Len(gens[g].parts) = 3

\* ------------------------------------------------------------------------
\* Properties of the address of a poll sequence
\* ------------------------------------------------------------------------
\* the poll sequence g makes a request in this step
Requests(g) ==
    /\ gens[g].kind = "poll"
    /\ gens[g].st = "running"
    /\ gens[g].pc \in {"poll_send", "ful_send"}
    /\ idCounter' # idCounter

\* the call that was sent in this step
Dispatched == sent'[Len(sent')]

\* one step, as C15 allows it: a request of a sequence polled with an
\* address is sent to that address; a request of a sequence polled without
\* one is made without an address, goes to the one poll service known when
\* it is made, and is not sent when no single poll service is known then
C15_Step ==
    \A g \in Gens : Requests(g) =>
        LET uri == gens[g].args.uri
            now == Matches(services', SVC_POLL)
        IN  IF uri # None
            THEN /\ sent' = Append(sent, Dispatched)
                 /\ Dispatched.uri = uri
                 /\ Dispatched.address = uri
            ELSE IF Cardinality(now) = 1
            THEN /\ sent' = Append(sent, Dispatched)
                 /\ Dispatched.uri = None
                 /\ \E d \in now : Dispatched.address = d.address
            ELSE /\ sent' = sent
                 /\ gens'[g].st = "raised"
                 /\ gens'[g].err \in {"ServiceNotFoundError", "AmbiguousServicesError"}

\* C15: a poll sequence called with an address sends its poll request and
\* every fulfilment request to that address; one called without an address
\* makes every fulfilment request without an address too, and the poll
\* service is resolved for each request from the descriptors known then.
C15_SameAddress == [][C15_Step]_vars

\* a sequence polled without an address was served by the one poll service
\* known, a second poll service was discovered, and the fulfilment request
\* that followed was not sent, as the poll service was ambiguous by then
C15_Witness ==
    \E g \in PollGens :
        /\ gens[g].args.uri = None
        /\ Len(gens[g].reqs) = 1
        /\ gens[g].reqs[1].address = PollA.address
        /\ gens[g].pc = "ful_send"
        /\ gens[g].st = "raised"
        /\ gens[g].err = "AmbiguousServicesError"
        /\ services = {PollA, PollB}

\* ------------------------------------------------------------------------
\* Properties of the call of poll and fulfilment
\* ------------------------------------------------------------------------
\* poll or fulfilment is called in this step, and g is what it returns
CalledNow(g) == gens[g].kind = "free" /\ gens'[g].kind # "free"

\* the sequence g makes its initial request in this step
FirstRequest(g) ==
    /\ gens[g].st = "running"
    /\ gens[g].reqs = <<>> /\ gens[g].parts = <<>>
    /\ gens[g].pc = (IF gens[g].kind = "poll" THEN "poll_send" ELSE "ful_send")
    /\ idCounter' # idCounter

\* one step, as C16 allows it: the call sends nothing, generates no
\* identifier and raises nothing; nothing is sent or generated for a
\* sequence the consumer has not advanced; and an initial request that
\* fails is raised by the step that makes it, which runs only once the
\* consumer has advanced the sequence
C16_Step ==
    \A g \in Gens :
        /\ CalledNow(g) =>
              /\ sent' = sent /\ idCounter' = idCounter /\ answer' = answer
              /\ gens'[g].st = "created" /\ gens'[g].err = None
              /\ gens'[g].reqs = <<>>
        /\ gens[g].st = "created" =>
              /\ sent' = sent /\ idCounter' = idCounter
              /\ gens'[g].st \in {"running", "closed"}
        /\ (FirstRequest(g) /\ answer'.kind # "ok") =>
              /\ answer'.gen = g
              /\ gens'[g].st = "raised"
              /\ gens'[g].err = Raised(Failed(answer'.kind))
              /\ gens'[g].out = <<>>

\* C16: calling poll or fulfilment sends no request and generates no
\* identifier; the initial request is built and sent when the consumer
\* first advances the sequence, and its resolution, status and transport
\* failures are raised there.
C16_LazyCall == [][C16_Step]_vars

\* poll was called and advanced once, and the resolution of its initial
\* request failed: one identifier was generated and nothing was sent
C16_Witness ==
    \E g \in PollGens :
        /\ gens[g].st = "raised"
        /\ gens[g].err = "ServiceNotFoundError"
        /\ gens[g].reqs = <<>>
        /\ idCounter = 1
        /\ sent = <<>>

====
